---- MODULE Spec2Model ----
(***************************************************************************)
(* A model of WebAct's ActionManager (src/web act/action_manager.py): the  *)
(* action taxonomy, perform_action's dispatch chain with its try/except,   *)
(* the action history, its persistence, and the action-space override;     *)
(* and of PromptManager (src/web act/prompt_manager.py): the prompt parts  *)
(* and the two segments generate_prompt renders from them.                 *)
(*                                                                         *)
(* Python values are tagged records.  A Python str is a sequence of atoms  *)
(* (TLA+ strings); the atom "\n" is the line terminator and no other atom  *)
(* holds one, so that joining and splitting lines is computed, not assumed.*)
(***************************************************************************)
EXTENDS Integers, Sequences, FiniteSets, TLC

VARIABLES config, action_space, taken_actions, disk, last, prompts

vars == <<config, action_space, taken_actions, disk, last, prompts>>

----------------------------------------------------------------------------
(* Python values *)

None == [t |-> "none"]

Absent == [t |-> "absent"]

Str(s) == [t |-> "str", s |-> s]

PyInt(n) == [t |-> "int", n |-> n]

List(items) == [t |-> "list", items |-> items]

Dict(selector, description) ==
  [t |-> "dict", selector |-> selector, description |-> description]

Handle(error) == [t |-> "handle", error |-> error]

EmptyStr == Str(<<>>)

NL == "\n"

\* bool(v)
Truthy(v) ==
  CASE v.t = "none" -> FALSE
    [] v.t = "str" -> v.s # <<>>
    [] v.t = "int" -> v.n # 0
    [] v.t = "list" -> v.items # <<>>
    [] v.t = "dict" -> v.selector # Absent \/ v.description # Absent
    [] v.t = "handle" -> TRUE

\* d.get(key, default) on a target dict
DictGet(d, key, default) ==
  LET v == IF key = "selector" THEN d.selector ELSE d.description
  IN IF v = Absent THEN default ELSE v

\* a or b
Or(a, b) == IF Truthy(a) THEN a ELSE b

\* "{v}" inside an f-string
Fmt(v) == IF v.t = "none" THEN <<"None">> ELSE v.s

----------------------------------------------------------------------------
(* The taxonomy lists of ActionManager.__init__ *)

default_action_space ==
  <<"CLICK", "PRESS ENTER", "HOVER", "SCROLL UP", "SCROLL DOWN", "NEW TAB",
    "CLOSE TAB", "GO BACK", "GO FORWARD", "TERMINATE", "SELECT", "TYPE",
    "GOTO", "MEMORIZE">>

no_value_op ==
  <<"CLICK", "PRESS ENTER", "HOVER", "SCROLL UP", "SCROLL DOWN", "NEW TAB",
    "CLOSE TAB", "PRESS HOME", "PRESS END", "PRESS PAGEUP", "PRESS PAGEDOWN",
    "GO BACK", "GO FORWARD", "TERMINATE", "NONE">>

with_value_op == <<"SELECT", "TYPE", "GOTO", "MEMORIZE", "SAY">>

no_element_op ==
  <<"PRESS ENTER", "SCROLL UP", "SCROLL DOWN", "NEW TAB", "CLOSE TAB",
    "GO BACK", "GOTO", "PRESS HOME", "PRESS END", "PRESS PAGEUP",
    "PRESS PAGEDOWN", "GO FORWARD", "TERMINATE", "NONE", "MEMORIZE", "SAY">>

Range(f) == {f[i] : i \in DOMAIN f}

\* a list of str literals as a Python list
StrList(names) == List([i \in DOMAIN names |-> Str(<<names[i]>>)])

----------------------------------------------------------------------------
(* perform_action: the branch of the if/elif chain that is taken *)

Call(path, method, args) ==
  [kind |-> "call", path |-> path, method |-> method, args |-> args]

LogOnly == [kind |-> "log"]

RaiseValueError == [kind |-> "raise"]

\* (variant: the value check left out)
HasValueAlways(value) == TRUE

\* the "and value" conjunct of the TYPE, GOTO, SELECT, SAY and MEMORIZE branches

HasValue(value) == Truthy(value)

\* the "and selector" conjunct of the CLICK, HOVER, TYPE, PRESS ENTER and SELECT branches
HasSelector(selector) == Truthy(selector)

\* (variant: only the names of the current action space are dispatched)
IsInActionSpace(action_name, name) ==
  /\ action_name = Str(<<name>>)
  /\ action_space.t = "list"
  /\ \E i \in DOMAIN action_space.items : action_space.items[i] = action_name

\* action_name == "<name>", the comparison of every branch of the chain

Is(action_name, name) == action_name = Str(<<name>>)

ScrollUpScript == Str(<<"window.scrollBy(0, -window.innerHeight / 2)">>)

ScrollDownScript == Str(<<"window.scrollBy(0, window.innerHeight / 2)">>)

Branch(selector, action_name, value) ==
  IF Is(action_name, "CLICK") /\ HasSelector(selector)
    THEN Call(<<>>, "click", <<>>)
  ELSE IF Is(action_name, "HOVER") /\ HasSelector(selector)
    THEN Call(<<>>, "hover", <<>>)
  ELSE IF Is(action_name, "TYPE") /\ HasSelector(selector) /\ HasValue(value)
    THEN Call(<<>>, "fill", <<value>>)
  ELSE IF Is(action_name, "SCROLL UP")
    THEN Call(<<>>, "evaluate", <<ScrollUpScript>>)
  ELSE IF Is(action_name, "SCROLL DOWN")
    THEN Call(<<>>, "evaluate", <<ScrollDownScript>>)
  ELSE IF Is(action_name, "PRESS HOME")
    THEN Call(<<"keyboard">>, "press", <<Str(<<"Home">>)>>)
  ELSE IF Is(action_name, "PRESS END")
    THEN Call(<<"keyboard">>, "press", <<Str(<<"End">>)>>)
  ELSE IF Is(action_name, "PRESS PAGEUP")
    THEN Call(<<"keyboard">>, "press", <<Str(<<"PageUp">>)>>)
  ELSE IF Is(action_name, "PRESS PAGEDOWN")
    THEN Call(<<"keyboard">>, "press", <<Str(<<"PageDown">>)>>)
  ELSE IF Is(action_name, "NEW TAB")
    THEN Call(<<"context">>, "new_page", <<>>)
  ELSE IF Is(action_name, "CLOSE TAB")
    THEN Call(<<>>, "close", <<>>)
  ELSE IF Is(action_name, "GO BACK")
    THEN Call(<<>>, "go_back", <<>>)
  ELSE IF Is(action_name, "GO FORWARD")
    THEN Call(<<>>, "go_forward", <<>>)
  ELSE IF Is(action_name, "GOTO") /\ HasValue(value)
    THEN Call(<<>>, "goto", <<value>>)
  ELSE IF Is(action_name, "PRESS ENTER") /\ HasSelector(selector)
    THEN Call(<<>>, "press", <<Str(<<"Enter">>)>>)
  ELSE IF Is(action_name, "SELECT") /\ HasSelector(selector) /\ HasValue(value)
    THEN Call(<<>>, "select_option", <<value>>)
  ELSE IF Is(action_name, "TERMINATE")
    THEN LogOnly
  ELSE IF Is(action_name, "NONE")
    THEN LogOnly
  ELSE IF Is(action_name, "SAY") /\ HasValue(value)
    THEN LogOnly
  ELSE IF Is(action_name, "MEMORIZE") /\ HasValue(value)
    THEN LogOnly
  ELSE RaiseValueError

----------------------------------------------------------------------------
(* perform_action: what the taken branch does inside the try block.        *)
(* exc is None when the block completes, else the str() of the exception;  *)
(* invoked lists the primitive calls that reached the automation layer.    *)

Ran(exc, invoked) == [exc |-> exc, invoked |-> invoked]

UnsupportedText == "Unsupported or improperly specified action"

ValueErrorText(action_name) ==
  Str(<<UnsupportedText, ": ">> \o Fmt(action_name))

\* attribute access on None
AttributeErrorText(attr) ==
  Str(<<"'NoneType' object has no attribute '", attr, "'">>)

\* (variant: the primitive is never called)
InvokeNothing(selector, branch) == Ran(None, <<>>)

\* selector.<path>.<method>(args) on a handle: the call reaches the
\* automation layer, and raises when the handle does

Invoke(selector, branch) ==
  Ran(selector.error, <<[method |-> branch.method, args |-> branch.args]>>)

RunBranch(selector, action_name, branch) ==
  CASE branch.kind = "log" -> Ran(None, <<>>)
    [] branch.kind = "raise" -> Ran(ValueErrorText(action_name), <<>>)
    [] branch.kind = "call" ->
         IF selector.t = "none"
           THEN Ran(AttributeErrorText(IF branch.path # <<>>
                                         THEN branch.path[1]
                                         ELSE branch.method), <<>>)
           ELSE Invoke(selector, branch)

----------------------------------------------------------------------------
(* perform_action: the strings it builds *)

NoElement == Str(<<"No Element">>)

NoValue == Str(<<"No Value">>)

\* (variant: the placeholders left out)
ActionSummaryNoPlaceholder(action_name, element_repr, value) ==
  Str(Fmt(action_name) \o <<": ">> \o Fmt(element_repr) \o <<" -> ">>
        \o Fmt(value))

\* f"{action_name}: {element_repr or 'No Element'} -> {value or 'No Value'}"
ActionSummary(action_name, element_repr, value) ==
  Str(Fmt(action_name) \o <<": ">> \o Fmt(Or(element_repr, NoElement))
        \o <<" -> ">> \o Fmt(Or(value, NoValue)))

\* f"Error performing {action_name} on {element_repr}: {e}"
ErrorMsg(action_name, element_repr, exc) ==
  Str(<<"Error performing ">> \o Fmt(action_name) \o <<" on ">>
        \o Fmt(element_repr) \o <<": ">> \o Fmt(exc))

----------------------------------------------------------------------------
(* perform_action: from the arguments to the value returned, the entry     *)
(* appended and the primitives invoked                                     *)

\* (variant: no except clause, the exception leaves perform_action)
ExceptNothing(action_name, element_repr, exc) ==
  [raised |-> TRUE, result |-> None]

\* except Exception as e: the error message is logged and returned

ExceptException(action_name, element_repr, exc) ==
  [raised |-> FALSE, result |-> ErrorMsg(action_name, element_repr, exc)]

\* the statements after the chain, reached when nothing was raised
RecordAndReturn(action_name, element_repr, value) ==
  LET action_summary == ActionSummary(action_name, element_repr, value)
  IN [raised |-> FALSE, result |-> action_summary,
      append |-> <<action_summary.s>>]

Outcome(target_element, action_name, value, element_repr0) ==
  LET selector == IF Truthy(target_element)
                    THEN DictGet(target_element, "selector", None)
                    ELSE None
      element_repr == IF Truthy(target_element)
                        THEN DictGet(target_element, "description", element_repr0)
                        ELSE element_repr0
      ran == RunBranch(selector, action_name, Branch(selector, action_name, value))
  IN IF ran.exc = None
       THEN LET r == RecordAndReturn(action_name, element_repr, value)
            IN [raised |-> r.raised, result |-> r.result, append |-> r.append,
                invoked |-> ran.invoked]
       ELSE LET e == ExceptException(action_name, element_repr, ran.exc)
            IN [raised |-> e.raised, result |-> e.result, append |-> <<>>,
                invoked |-> ran.invoked]

----------------------------------------------------------------------------
(* Configuration dictionaries given to __init__, and the file system *)

Config(top_action_space, save_file_dir, agent_action_space) ==
  [t |-> "dict", action_space |-> top_action_space,
   save_file_dir |-> save_file_dir, agent_action_space |-> agent_action_space]

DefaultSaveDir == Str(<<"seeact_agent_files">>)

DefaultFilename == Str(<<"action_history.txt">>)

NoFile == [t |-> "nofile"]

\* config.get("action_space", [...]) in __init__
InitialActionSpace(cfg) ==
  IF cfg.action_space = Absent THEN StrList(default_action_space)
  ELSE cfg.action_space

\* config.get("basic", {}).get("save_file_dir", "seeact_agent_files")
SaveDirectory(cfg) ==
  IF cfg.save_file_dir = Absent THEN DefaultSaveDir ELSE cfg.save_file_dir

\* os.path.join(directory, filename)
PathJoin(directory, filename) == Str(directory.s \o <<"/">> \o filename.s)

\* what the loop of f.write(action + '\n') leaves in the file
RECURSIVE WriteLines(_)
WriteLines(actions) ==
  IF actions = <<>> THEN <<>>
  ELSE Head(actions) \o <<NL>> \o WriteLines(Tail(actions))

----------------------------------------------------------------------------
(* PromptManager: the prompt parts of _initialize_prompts *)

SystemPromptText ==
  Str(<<"You are assisting humans in web navigation tasks step by step. ",
        NL,
        "            At each stage, you can see the webpage by a screenshot and know the previous actions ",
        NL,
        "            that have been executed for this task. You need to decide on the next action to take.">>)

ActionSpaceText ==
  Str(<<NL,
        "Here are the descriptions of all allowed actions:",
        NL,
        NL,
        "No Value Operations:",
        NL,
        "- CLICK: Click on a webpage element using the mouse.",
        NL,
        "- HOVER: Move the mouse over a webpage element without clicking.",
        NL,
        "- PRESS ENTER: Press the Enter key to submit or confirm an input.",
        NL,
        "- SCROLL UP: Scroll up on the page.",
        NL,
        "- SCROLL DOWN: Scroll down on the page.",
        NL,
        "- PRESS HOME: Go to the top of the page.",
        NL,
        "- PRESS END: Go to the bottom of the page.",
        NL,
        "- PRESS PAGEUP: Scroll up by one page.",
        NL,
        "- PRESS PAGEDOWN: Scroll down by one page.",
        NL,
        "- CLOSE TAB: Close the current tab.",
        NL,
        "- NEW TAB: Open a new tab.",
        NL,
        "- GO BACK: Navigate to the previous page.",
        NL,
        "- GO FORWARD: Navigate to the next page.",
        NL,
        "- TERMINATE: End the task if completed or if the task is risky.",
        NL,
        "- NONE: Skip an action if unnecessary at this stage.",
        NL,
        NL,
        "With Value Operations:",
        NL,
        "- SELECT: Choose an option from a dropdown menu.",
        NL,
        "- TYPE: Enter text into a text box.",
        NL,
        "- GOTO: Navigate to a specific URL.",
        NL,
        "- SAY: Output information to the user.",
        NL,
        "- MEMORIZE: Store content for reference.",
        NL>>)

QuestionDescriptionText ==
  Str(<<"The screenshot below shows the webpage. Think through each step ",
        NL,
        "            before deciding on the next action. Clearly outline the element to interact with, ",
        NL,
        "            its location, and the action to perform. Follow these rules:",
        NL,
        "1. Issue only one valid action per step.",
        NL,
        "2. Handle dropdowns directly; options will be listed.",
        NL,
        "3. Avoid account creation, login, or final submissions.",
        NL,
        "4. Terminate if task is complete or requires potentially harmful actions.",
        NL,
        "5. Interact with floating banners, closing them if they cover content.",
        NL,
        "6. Type or select inputs directly, bypassing clicks when possible.",
        NL,
        "7. Avoid repeating the same failed action consecutively.",
        NL,
        "8. Ignore minor banners (e.g., cookie policies).",
        NL,
        "9. Press ENTER after typing in search or text inputs.",
        NL,
        "10. Choose the least obstructed clickable button if options are identical.">>)

ReferringDescriptionText ==
  Str(<<"(Reiteration)",
        NL,
        "Reiterate your next target element, its location, and the corresponding action.",
        NL,
        NL,
        "(Multi-choice Question)",
        NL,
        "Below is a multi-choice question with elements arranged by their height on the page, ",
        NL,
        "from top to bottom and left to right. From the screenshot, locate and match each choice ",
        NL,
        "with its corresponding element by examining the content and HTML details. Then choose the ",
        NL,
        "matching element based on your target action.">>)

ElementFormatText ==
  Str(<<"(Final Answer)",
        NL,
        "Conclude with the following format for the target element:",
        NL,
        NL,
        "ELEMENT: The uppercase letter representing your choice.">>)

ActionFormatText ==
  Str(<<"ACTION: Choose an action from allowed actions.">>)

ValueFormatText ==
  Str(<<"VALUE: Provide additional input as needed based on ACTION (if not needed, write \"None\")">>)

initialize_prompts ==
  [system_prompt |-> SystemPromptText,
   action_space |-> ActionSpaceText,
   question_description |-> QuestionDescriptionText,
   referring_description |-> ReferringDescriptionText,
   element_format |-> ElementFormatText,
   action_format |-> ActionFormatText,
   value_format |-> ValueFormatText]

----------------------------------------------------------------------------
(* PromptManager: the strings generate_prompt builds *)

\* repr() of a str: quoted, a line break shown as \n
RECURSIVE EscapeAtoms(_)
EscapeAtoms(s) ==
  IF s = <<>> THEN <<>>
  ELSE <<IF Head(s) = NL THEN "\\n" ELSE Head(s)>> \o EscapeAtoms(Tail(s))

ReprStr(v) == <<"'">> \o EscapeAtoms(v.s) \o <<"'">>

\* sep.join(items) for a sequence of str
RECURSIVE Join(_, _)
Join(sep, items) ==
  IF items = <<>> THEN <<>>
  ELSE IF Len(items) = 1 THEN items[1].s
  ELSE items[1].s \o sep \o Join(sep, Tail(items))

\* "{v}" inside an f-string, for None, a str or a list of str
FmtAny(v) ==
  IF v.t = "list"
    THEN <<"[">> \o Join(<<", ">>, [i \in DOMAIN v.items |-> Str(ReprStr(v.items[i]))])
           \o <<"]">>
    ELSE Fmt(v)

\* _generate_new_query_prompt
generate_new_query_prompt(system_prompt, task, previous_actions, question_description) ==
  <<Str(system_prompt.s \o <<NL, "Task: ">> \o FmtAny(task)
          \o <<NL, "Previous Actions: ">> \o FmtAny(previous_actions)
          \o <<NL>> \o question_description.s)>>

NoChoices == Str(<<"No choices available">>)

\* (variant: the placeholder left out)
ChoicesStrNoPlaceholder(choices) ==
  IF Truthy(choices) THEN Str(Join(<<NL>>, choices.items)) ELSE EmptyStr

\* "\n".join(choices) if choices else "No choices available"
ChoicesStr(choices) ==
  IF Truthy(choices) THEN Str(Join(<<NL>>, choices.items)) ELSE NoChoices

\* _generate_new_referring_prompt
generate_new_referring_prompt(referring_description, element_format, action_format, value_format, choices) ==
  Str(referring_description.s \o <<NL, "Choices:", NL>>
        \o ChoicesStr(choices).s \o <<NL, NL>> \o element_format.s
        \o <<NL>> \o action_format.s \o <<NL>> \o value_format.s)

\* the prompt_list generate_prompt returns
PromptList(parts, task, previous, choices) ==
  generate_new_query_prompt(
      Str(parts.system_prompt.s \o <<NL>> \o parts.action_space.s),
      task, previous, parts.question_description)
    \o <<generate_new_referring_prompt(
           parts.referring_description, parts.element_format,
           parts.action_format, parts.value_format, choices)>>

----------------------------------------------------------------------------
(* Bounds and the inputs the operations are called with *)

MaxHistory == 3

GoodHandle == Handle(None)

StaleHandle == Handle(Str(<<"Element is not attached to the DOM">>))

Button == Str(<<"btn">>)

\* target_element: absent, an empty dict, or a dict with a handle and/or a description
Targets ==
  {None,
   Dict(Absent, Absent),
   Dict(GoodHandle, Button),
   Dict(GoodHandle, Absent),
   Dict(GoodHandle, EmptyStr),
   Dict(StaleHandle, Button),
   Dict(Absent, Button)}

Taxonomy == Range(no_value_op) \cup Range(with_value_op)

ActionNames == {Str(<<a>>) : a \in Taxonomy \cup {"DRAG"}} \cup {None}

MultiLine == Str(<<"a", NL, "b">>)

Values == {None, EmptyStr, Str(<<"v">>), MultiLine}

ElementReprs == {EmptyStr, Str(<<"r">>)}

Request(target_element, action_name, value, element_repr) ==
  [target_element |-> target_element, action_name |-> action_name,
   value |-> value, element_repr |-> element_repr]

\* the calls of a session: two that succeed, four that fail in the four ways
SessionRequests ==
  {Request(Dict(GoodHandle, Button), Str(<<"CLICK">>), None, EmptyStr),
   Request(Dict(GoodHandle, Button), Str(<<"TYPE">>), MultiLine, EmptyStr),
   Request(None, Str(<<"CLICK">>), None, EmptyStr),
   Request(Dict(StaleHandle, Button), Str(<<"CLICK">>), None, EmptyStr),
   Request(None, Str(<<"SCROLL UP">>), None, EmptyStr),
   Request(None, Str(<<"DRAG">>), None, EmptyStr)}

\* new_actions of update_action_space
Overrides ==
  {Str(<<"CLICK">>),
   None,
   List(<<Str(<<"CLICK">>), PyInt(1)>>),
   List(<<>>),
   StrList(<<"CLICK", "TYPE">>),
   StrList(<<"DRAG">>)}

Configs ==
  {Config(Absent, Absent, Absent),
   Config(Absent, Str(<<"out">>), Absent)}

----------------------------------------------------------------------------
(* The state machine *)

\* ActionManager.__init__
Init ==
  /\ config \in Configs
  /\ action_space = InitialActionSpace(config)
  /\ taken_actions = <<>>
  /\ disk = [dirs |-> {}, files |-> [d \in {} |-> NoFile]]
  /\ last = [op |-> "__init__"]
  /\ prompts = initialize_prompts

perform_action(target_element, action_name, value, element_repr) ==
  LET out == Outcome(target_element, action_name, value, element_repr)
  IN /\ taken_actions' = taken_actions \o out.append
     /\ last' = [op |-> "perform_action",
                 request |-> Request(target_element, action_name, value,
                                     element_repr),
                 raised |-> out.raised, result |-> out.result,
                 invoked |-> out.invoked]
     /\ UNCHANGED <<config, action_space, disk, prompts>>

\* (variant: the elements are not checked)
IsList(new_actions) == new_actions.t = "list"

\* isinstance(new_actions, list) and all(isinstance(action, str) ...)
IsListOfStr(new_actions) ==
  /\ new_actions.t = "list"
  /\ \A i \in DOMAIN new_actions.items : new_actions.items[i].t = "str"

update_action_space(new_actions) ==
  /\ action_space' = IF IsListOfStr(new_actions) THEN new_actions
                     ELSE action_space
  /\ last' = [op |-> "update_action_space", new_actions |-> new_actions,
              raised |-> FALSE]
  /\ UNCHANGED <<config, taken_actions, disk, prompts>>

get_action_space == action_space

save_action_history(filename) ==
  LET directory == SaveDirectory(config)
      history_path == PathJoin(directory, filename)
  IN /\ disk' = [dirs |-> disk.dirs \cup {directory},
                 files |-> [p \in DOMAIN disk.files \cup {history_path} |->
                              IF p = history_path
                                THEN WriteLines(taken_actions)
                                ELSE disk.files[p]]]
     /\ last' = [op |-> "save_action_history", history_path |-> history_path,
                 raised |-> FALSE]
     /\ UNCHANGED <<config, action_space, taken_actions, prompts>>

clear_action_history ==
  /\ taken_actions' = <<>>
  /\ last' = [op |-> "clear_action_history", raised |-> FALSE]
  /\ UNCHANGED <<config, action_space, disk, prompts>>

Perform ==
  /\ Len(taken_actions) < MaxHistory
  /\ \E r \in SessionRequests :
       perform_action(r.target_element, r.action_name, r.value, r.element_repr)

Update == \E new_actions \in Overrides : update_action_space(new_actions)

Save == save_action_history(DefaultFilename)

Clear == clear_action_history

Next == Perform \/ Update \/ Save \/ Clear

Spec == Init /\ [][Next]_vars

\* calls with every combination of arguments, each made right after
\* construction or right after one of the session's calls
Dispatch ==
  /\ Len(taken_actions) < MaxHistory
  /\ \/ last.op = "__init__"
     \/ /\ last.op = "perform_action"
        /\ last.request \in SessionRequests
  /\ \E target_element \in Targets, action_name \in ActionNames,
        value \in Values, element_repr \in ElementReprs :
       perform_action(target_element, action_name, value, element_repr)

NextDispatch == Dispatch

SpecDispatch == Init /\ [][NextDispatch]_vars

\* configurations that carry an action-space override: under "agent", where
\* the settings keep it, or at the top level, where __init__ looks for it
OverrideConfigs ==
  {Config(Absent, Absent, Absent),
   Config(Absent, Absent, StrList(<<"CLICK", "TYPE">>)),
   Config(Absent, Absent, Str(<<"CLICK">>)),
   Config(StrList(<<"CLICK", "TYPE">>), Absent, Absent),
   Config(Str(<<"CLICK">>), Absent, Absent),
   Config(List(<<Str(<<"CLICK">>), PyInt(1)>>), Absent, Absent)}

\* ActionManager.__init__ with such a configuration
InitConfig ==
  /\ config \in OverrideConfigs
  /\ action_space = InitialActionSpace(config)
  /\ taken_actions = <<>>
  /\ disk = [dirs |-> {}, files |-> [d \in {} |-> NoFile]]
  /\ last = [op |-> "__init__"]
  /\ prompts = initialize_prompts

SpecConfig == InitConfig /\ [][Next]_vars

\* task, previous and choices of generate_prompt
MaxChoices == 3

MaxPartUpdates == 1

Tasks == {None, Str(<<"Find X">>)}

PreviousActions ==
  {None, List(<<>>), List(<<Str(<<"CLICK", ": ", "btn", " -> ", "No Value">>)>>)}

Labels == <<"A", "B", "C", "D", "E", "F", "G", "H">>

ElementTexts == {"<button>Search</button>", "<a>Home</a>"}

\* candidate lists as the caller labels them: successive uppercase letters
LabelledChoices(n) ==
  {List([i \in 1..n |-> Str(<<Labels[i], ". ", texts[i]>>)]) :
     texts \in [1..n -> ElementTexts]}

ChoiceLists ==
  {None, List(<<>>)} \cup UNION {LabelledChoices(n) : n \in 1..MaxChoices}

PartNames == DOMAIN initialize_prompts

NewTexts == {Str(<<"(custom)">>)}

generate_prompt(task, previous, choices) ==
  /\ last' = [op |-> "generate_prompt", task |-> task, previous |-> previous,
              choices |-> choices,
              bundle |-> PromptList(prompts, task, previous, choices)]
  /\ UNCHANGED <<config, action_space, taken_actions, disk, prompts>>

update_prompt_part(part_name, new_text) ==
  /\ prompts' = IF part_name \in DOMAIN prompts
                  THEN [prompts EXCEPT ![part_name] = new_text]
                  ELSE prompts
  /\ last' = [op |-> "update_prompt_part", part_name |-> part_name,
              new_text |-> new_text, result |-> part_name \in DOMAIN prompts]
  /\ UNCHANGED <<config, action_space, taken_actions, disk>>

Generate ==
  \E task \in Tasks, previous \in PreviousActions, choices \in ChoiceLists :
    generate_prompt(task, previous, choices)

\* the parts that no longer hold their initial text
Overridden == {part \in PartNames : prompts[part] # initialize_prompts[part]}

UpdatePart ==
  /\ Cardinality(Overridden) < MaxPartUpdates
  /\ \E part_name \in PartNames \cup {"footer"}, new_text \in NewTexts :
       update_prompt_part(part_name, new_text)

NextPrompt == Generate \/ UpdatePart

\* a PromptManager beside an ActionManager built from the empty config
InitPrompt == Init /\ config = Config(Absent, Absent, Absent)

SpecPrompt == InitPrompt /\ [][NextPrompt]_vars

----------------------------------------------------------------------------
(* Properties *)

\* t occurs in s as a run of consecutive atoms
Contains(s, t) ==
  \E i \in 0..(Len(s) - Len(t)) : SubSeq(s, i + 1, i + Len(t)) = t

\* the lines of a text file: each run of atoms up to a line terminator
RECURSIVE SplitLines(_, _)
SplitLines(text, line) ==
  IF text = <<>> THEN (IF line = <<>> THEN <<>> ELSE <<line>>)
  ELSE IF Head(text) = NL THEN <<line>> \o SplitLines(Tail(text), <<>>)
  ELSE SplitLines(Tail(text), Append(line, Head(text)))

ReadLines(file) == SplitLines(file, <<>>)

IsPrefix(p, s) == Len(p) <= Len(s) /\ SubSeq(s, 1, Len(p)) = p

\* what a caller sees of a returned value: an error outcome starts with
\* "Error performing ", a normal summary with the action name
IsErrorOutcome(result) ==
  result.t = "str" /\ result.s # <<>> /\ result.s[1] = "Error performing "

Performed(l) == l.op = "perform_action"

Succeeded(l) ==
  Performed(l) /\ ~l.raised /\ l.result.t = "str" /\ ~IsErrorOutcome(l.result)

NameIn(action_name, names) == \E a \in names : action_name = Str(<<a>>)

\* the handle a request gives, None when it gives none
HandleOf(request) ==
  IF request.target_element.t = "dict"
       /\ request.target_element.selector # Absent
    THEN request.target_element.selector
    ELSE None

----------------------------------------------------------------------------
(* C1 - C6: one perform_action call, checked under SpecDispatch *)

\* C1: every perform_action call, failed ones included, appends exactly one
\* entry to taken_actions, and that entry is the string the call returned
\* (for a failed attempt, its error text).
C1_EveryCallAppendsOneEntry ==
  [][Performed(last') =>
       /\ Len(taken_actions') = Len(taken_actions) + 1
       /\ taken_actions'[Len(taken_actions')] = last'.result.s]_vars

\* a request that must work whatever came before it: a click on a live
\* handle, or a log-only action
Workable(request) ==
  \/ NameIn(request.action_name, {"TERMINATE", "NONE"})
  \/ /\ NameIn(request.action_name, {"CLICK", "HOVER", "PRESS ENTER"})
     /\ HandleOf(request) = GoodHandle

\* the call reached a primitive of a handle that raises
PrimitiveRaised(l) ==
  /\ l.invoked # <<>>
  /\ HandleOf(l.request) # None
  /\ HandleOf(l.request).error # None

\* C2: perform_action never lets an exception reach the caller; when the
\* primitive raises, the returned error summary holds the error text; the
\* entries already in the history keep their content and order; and a call
\* made after a failed one still executes normally.
C2_FailureIsolation ==
  [][Performed(last') =>
       /\ ~last'.raised
       /\ last'.result.t = "str"
       /\ PrimitiveRaised(last') =>
            /\ IsErrorOutcome(last'.result)
            /\ Contains(last'.result.s, HandleOf(last'.request).error.s)
       /\ IsPrefix(taken_actions, taken_actions')
       /\ (Performed(last) /\ IsErrorOutcome(last.result)
             /\ Workable(last'.request)) =>
            /\ Succeeded(last')
            /\ Len(taken_actions') = Len(taken_actions) + 1]_vars

\* a primitive raised while the history already held an entry
C2_Witness ==
  /\ Performed(last)
  /\ PrimitiveRaised(last)
  /\ Contains(last.result.s, <<"Element is not attached to the DOM">>)
  /\ taken_actions # <<>>

ElementFree ==
  {"SCROLL UP", "SCROLL DOWN", "PRESS HOME", "PRESS END", "PRESS PAGEUP",
   "PRESS PAGEDOWN", "NEW TAB", "CLOSE TAB", "GO BACK", "GO FORWARD", "GOTO",
   "TERMINATE", "NONE"}

\* C3: an element-free action (GOTO with a non-empty value) called with
\* target_element None completes as a success.
C3_ElementFreeNeedsNoTarget ==
  (/\ Performed(last)
   /\ last.request.target_element = None
   /\ NameIn(last.request.action_name, ElementFree)
   /\ (last.request.action_name = Str(<<"GOTO">>) => Truthy(last.request.value)))
  => Succeeded(last)

ValueBearing == {"TYPE", "SELECT", "GOTO", "MEMORIZE", "SAY"}

ElementRequiring == {"CLICK", "HOVER", "PRESS ENTER", "TYPE", "SELECT"}

AllTags ==
  {"CLICK", "HOVER", "PRESS ENTER", "SCROLL UP", "SCROLL DOWN", "PRESS HOME",
   "PRESS END", "PRESS PAGEUP", "PRESS PAGEDOWN", "NEW TAB", "CLOSE TAB",
   "GO BACK", "GO FORWARD", "TERMINATE", "NONE", "SELECT", "TYPE", "GOTO",
   "MEMORIZE", "SAY"}

NoValueGiven(request) ==
  request.value = None \/ request.value = Str(<<>>)

Malformed(request) ==
  \/ ~NameIn(request.action_name, AllTags)
  \/ NameIn(request.action_name, ValueBearing) /\ NoValueGiven(request)
  \/ /\ NameIn(request.action_name, ElementRequiring)
     /\ request.target_element = None

\* C4: an unknown action name, a value-bearing action without a value, and
\* an element-requiring action without a target all return an outcome holding
\* "Unsupported or improperly specified action", invoke no primitive and do
\* not throw.
C4_MalformedClassified ==
  (Performed(last) /\ Malformed(last.request)) =>
    /\ ~last.raised
    /\ last.result.t = "str"
    /\ Contains(last.result.s, <<"Unsupported or improperly specified action">>)
    /\ last.invoked = <<>>

\* TYPE on a live handle with an empty value
C4_Witness ==
  /\ Performed(last)
  /\ last.request.action_name = Str(<<"TYPE">>)
  /\ last.request.value = Str(<<>>)
  /\ HandleOf(last.request) = GoodHandle
  /\ Contains(last.result.s, <<"Unsupported or improperly specified action">>)

KeyOf(name) ==
  CASE name = "PRESS ENTER" -> "Enter"
    [] name = "PRESS HOME" -> "Home"
    [] name = "PRESS END" -> "End"
    [] name = "PRESS PAGEUP" -> "PageUp"
    [] name = "PRESS PAGEDOWN" -> "PageDown"

\* the one primitive of each action family
FamilyPrimitive(name, value) ==
  CASE name = "CLICK" -> [method |-> "click", args |-> <<>>]
    [] name = "HOVER" -> [method |-> "hover", args |-> <<>>]
    [] name = "TYPE" -> [method |-> "fill", args |-> <<value>>]
    [] name = "SELECT" -> [method |-> "select_option", args |-> <<value>>]
    [] name = "GOTO" -> [method |-> "goto", args |-> <<value>>]
    [] name = "SCROLL UP" ->
         [method |-> "evaluate",
          args |-> <<Str(<<"window.scrollBy(0, -window.innerHeight / 2)">>)>>]
    [] name = "SCROLL DOWN" ->
         [method |-> "evaluate",
          args |-> <<Str(<<"window.scrollBy(0, window.innerHeight / 2)">>)>>]
    [] name \in {"PRESS ENTER", "PRESS HOME", "PRESS END", "PRESS PAGEUP",
                 "PRESS PAGEDOWN"} ->
         [method |-> "press", args |-> <<Str(<<KeyOf(name)>>)>>]
    [] name = "NEW TAB" -> [method |-> "new_page", args |-> <<>>]
    [] name = "CLOSE TAB" -> [method |-> "close", args |-> <<>>]
    [] name = "GO BACK" -> [method |-> "go_back", args |-> <<>>]
    [] name = "GO FORWARD" -> [method |-> "go_forward", args |-> <<>>]

NoPrimitive == {"TERMINATE", "NONE", "SAY", "MEMORIZE"}

\* C5: a successful action invokes exactly one primitive, the one of its
\* family, and TERMINATE, NONE, SAY and MEMORIZE invoke none.
C5_OnePrimitivePerAction ==
  Succeeded(last) =>
    LET name == last.request.action_name.s[1]
    IN IF name \in NoPrimitive THEN last.invoked = <<>>
       ELSE last.invoked = <<FamilyPrimitive(name, last.request.value)>>

\* TYPE with a target and a value: exactly one fill of that value
C5_Witness ==
  /\ Succeeded(last)
  /\ last.request.action_name = Str(<<"TYPE">>)
  /\ last.invoked = <<[method |-> "fill", args |-> <<Str(<<"v">>)>>]>>

\* the descriptor of a request: the target's description when the target
\* supplies one, else the element_repr argument
Descriptor(request) ==
  IF request.target_element.t = "dict"
       /\ request.target_element.description # Absent
    THEN request.target_element.description
    ELSE request.element_repr

OrPlaceholder(v, placeholder) ==
  IF v = None \/ v = Str(<<>>) THEN <<placeholder>> ELSE v.s

\* C6: a successful call returns "{action}: {descriptor or 'No Element'} ->
\* {value or 'No Value'}", that string is the last history entry, a
\* value-bearing action's summary holds the value, and a description the
\* target supplies is the descriptor used.
C6_SummaryFormat ==
  Succeeded(last) =>
    LET request == last.request
        summary == request.action_name.s \o <<": ">>
                     \o OrPlaceholder(Descriptor(request), "No Element")
                     \o <<" -> ">> \o OrPlaceholder(request.value, "No Value")
    IN /\ last.result = Str(summary)
       /\ taken_actions # <<>>
       /\ taken_actions[Len(taken_actions)] = summary
       /\ NameIn(request.action_name, ValueBearing) =>
            Contains(last.result.s, request.value.s)
       /\ (request.target_element.t = "dict"
             /\ request.target_element.description = Button) =>
            Contains(last.result.s, <<": ", "btn", " -> ">>)

\* a TYPE whose target describes itself, with the element_repr argument set too
C6_Witness ==
  /\ Succeeded(last)
  /\ last.request.action_name = Str(<<"TYPE">>)
  /\ last.request.target_element = Dict(GoodHandle, Button)
  /\ last.request.element_repr = Str(<<"r">>)
  /\ last.request.value = Str(<<"v">>)
  /\ last.result = Str(<<"TYPE", ": ", "btn", " -> ", "v">>)

----------------------------------------------------------------------------
(* C7 - C10: the session's operations, checked under Spec *)

\* C7: save_action_history leaves a file with one line per history entry, in
\* insertion order, each line equal to the entry; clear_action_history then
\* empties the history and leaves the file as it is.
C7_SavedFileIsTheHistory ==
  [][/\ last'.op = "save_action_history" =>
          /\ last'.history_path \in DOMAIN disk'.files
          /\ ReadLines(disk'.files[last'.history_path]) = taken_actions'
     /\ last'.op = "clear_action_history" =>
          /\ taken_actions' = <<>>
          /\ disk' = disk]_vars

\* a list whose elements are all strings
AllStrings(v) ==
  /\ v.t = "list"
  /\ \A i \in 1..Len(v.items) : v.items[i].t = "str"

\* C8: update_action_space installs a list of strings as it is, leaves the
\* action space as it was for anything else, and throws in neither case; no
\* other operation changes the action space.
C8_UpdateAllOrNothing ==
  [][IF last'.op = "update_action_space"
       THEN /\ ~last'.raised
            /\ AllStrings(last'.new_actions) =>
                 get_action_space' = last'.new_actions
            /\ ~AllStrings(last'.new_actions) =>
                 get_action_space' = get_action_space
       ELSE get_action_space' = get_action_space]_vars

\* a list holding a non-string was offered after an override had been
\* installed, and the installed override is still there
C8_Witness ==
  /\ last.op = "update_action_space"
  /\ last.new_actions = List(<<Str(<<"CLICK">>), PyInt(1)>>)
  /\ get_action_space = List(<<Str(<<"CLICK">>), Str(<<"TYPE">>)>>)

\* the action names of an action space
NamesOf(space) == {space.items[i] : i \in 1..Len(space.items)}

\* C9: no tag is in both the no-value and the with-value list, and every
\* with-value tag is in the action space a default construction gives.
C9_TaxonomyConsistent ==
  /\ Range(no_value_op) \cap Range(with_value_op) = {}
  /\ (last.op = "__init__" /\ config.action_space = Absent) =>
       \A tag \in Range(with_value_op) :
         Str(<<tag>>) \in NamesOf(get_action_space)

\* C10: every action name in the action space is a tag of the no-value or
\* the with-value list.
C10_ActionSpaceWithinTaxonomy ==
  /\ get_action_space.t = "list"
  /\ \A name \in NamesOf(get_action_space) :
       \E tag \in Range(no_value_op) \cup Range(with_value_op) :
         name = Str(<<tag>>)

----------------------------------------------------------------------------
(* C11: generate_prompt, checked under SpecPrompt *)

\* the number of places where t occurs in s
Count(s, t) ==
  Cardinality({i \in 0..(Len(s) - Len(t)) : SubSeq(s, i + 1, i + Len(t)) = t})

\* the first place where t occurs in s
Position(s, t) ==
  CHOOSE i \in 0..(Len(s) - Len(t)) :
    /\ SubSeq(s, i + 1, i + Len(t)) = t
    /\ \A j \in 0..(i - 1) : SubSeq(s, j + 1, j + Len(t)) # t

\* the given strings, one per line
RECURSIVE OneLineEach(_)
OneLineEach(items) ==
  IF Len(items) = 1 THEN items[1].s
  ELSE items[1].s \o <<NL>> \o OneLineEach(Tail(items))

NoChoiceGiven(choices) == choices = None \/ choices = List(<<>>)

\* C11: the last segment of the bundle is the referring description, the
\* choice list and the element, action and value formats in that order; an
\* empty or absent list is rendered as "No choices available"; otherwise
\* every choice occurs exactly once, in the given order; and the bundle is
\* fixed by task, previous actions, choices and the prompt parts.
C11_ChoicesRendered ==
  last.op = "generate_prompt" =>
    LET choices == last.choices
        segment == last.bundle[Len(last.bundle)].s
        before == prompts.referring_description.s \o <<NL, "Choices:", NL>>
        after == <<NL, NL>> \o prompts.element_format.s \o <<NL>>
                   \o prompts.action_format.s \o <<NL>>
                   \o prompts.value_format.s
        query == prompts.system_prompt.s \o <<NL>> \o prompts.action_space.s
                   \o <<NL, "Task: ">> \o FmtAny(last.task)
                   \o <<NL, "Previous Actions: ">> \o FmtAny(last.previous)
                   \o <<NL>> \o prompts.question_description.s
    IN /\ Len(last.bundle) = 2
       /\ last.bundle[1] = Str(query)
       /\ IF NoChoiceGiven(choices)
            THEN segment = before \o <<"No choices available">> \o after
            ELSE /\ segment = before \o OneLineEach(choices.items) \o after
                 /\ \A i \in 1..Len(choices.items) :
                      Count(segment, choices.items[i].s) = 1
                 /\ \A i, j \in 1..Len(choices.items) :
                      i < j => Position(segment, choices.items[i].s)
                                 < Position(segment, choices.items[j].s)

\* three choices rendered after a prompt part was replaced
C11_Witness ==
  /\ last.op = "generate_prompt"
  /\ last.choices.t = "list"
  /\ Len(last.choices.items) = 3
  /\ prompts.referring_description = Str(<<"(custom)">>)
  /\ Contains(last.bundle[2].s,
              <<"(custom)", NL, "Choices:", NL, "A", ". ", "<a>Home</a>", NL,
                "B", ". ", "<button>Search</button>", NL, "C", ". ",
                "<a>Home</a>", NL, NL, "(Final Answer)">>)

----------------------------------------------------------------------------
(* C12: construction from a configuration, checked under SpecConfig *)

\* C12: right after construction, a valid override given at
\* agent.action_space is the action space, and an override that is not a
\* list of strings leaves the default action space.
C12_ConfigOverrideValidated ==
  last.op = "__init__" =>
    /\ (config.agent_action_space # Absent
          /\ AllStrings(config.agent_action_space)) =>
         get_action_space = config.agent_action_space
    /\ (config.agent_action_space # Absent
          /\ ~AllStrings(config.agent_action_space)) =>
         get_action_space = StrList(default_action_space)
    /\ (config.action_space # Absent /\ ~AllStrings(config.action_space)) =>
         get_action_space = StrList(default_action_space)

----------------------------------------------------------------------------
(* C13: perform_action and the action space, checked under Spec *)

Primitive(method, args) == <<[method |-> method, args |-> args]>>

\* what a call does, from its arguments alone: the value returned, the
\* primitives invoked and the entries appended to the history
Effect(result, invoked, append) ==
  [result |-> Str(result), invoked |-> invoked, append |-> append]

EffectOf(request) ==
  LET name == request.action_name.s[1]
      target == request.target_element
  IN CASE name = "CLICK" /\ target = Dict(GoodHandle, Button) ->
            Effect(<<"CLICK", ": ", "btn", " -> ", "No Value">>,
                   Primitive("click", <<>>),
                   << <<"CLICK", ": ", "btn", " -> ", "No Value">> >>)
       [] name = "TYPE" /\ target = Dict(GoodHandle, Button) ->
            Effect(<<"TYPE", ": ", "btn", " -> ", "a", NL, "b">>,
                   Primitive("fill", <<MultiLine>>),
                   << <<"TYPE", ": ", "btn", " -> ", "a", NL, "b">> >>)
       [] name = "CLICK" /\ target = Dict(StaleHandle, Button) ->
            Effect(<<"Error performing ", "CLICK", " on ", "btn", ": ",
                     "Element is not attached to the DOM">>,
                   Primitive("click", <<>>), <<>>)
       [] name = "CLICK" /\ target = None ->
            Effect(<<"Error performing ", "CLICK", " on ", ": ",
                     "Unsupported or improperly specified action", ": ",
                     "CLICK">>, <<>>, <<>>)
       [] name = "SCROLL UP" /\ target = None ->
            Effect(<<"Error performing ", "SCROLL UP", " on ", ": ",
                     "'NoneType' object has no attribute '", "evaluate",
                     "'">>, <<>>, <<>>)
       [] name = "DRAG" /\ target = None ->
            Effect(<<"Error performing ", "DRAG", " on ", ": ",
                     "Unsupported or improperly specified action", ": ",
                     "DRAG">>, <<>>, <<>>)

Listed(action_name, space) ==
  space.t = "list" /\ \E i \in DOMAIN space.items : space.items[i] = action_name

\* C13: whatever the action space is, perform_action with the same target,
\* action name and value invokes the same primitive, returns the same
\* result and makes the same change to the history.
C13_ExecutionIgnoresActionSpace ==
  [][Performed(last') =>
       LET effect == EffectOf(last'.request)
       IN /\ ~last'.raised
          /\ last'.result = effect.result
          /\ last'.invoked = effect.invoked
          /\ taken_actions' = taken_actions \o effect.append
          /\ action_space' = action_space]_vars

\* CLICK is executed after update_action_space installed an empty list
C13_Witness ==
  /\ Succeeded(last)
  /\ last.request.action_name = Str(<<"CLICK">>)
  /\ last.invoked = Primitive("click", <<>>)
  /\ get_action_space = List(<<>>)
  /\ ~Listed(last.request.action_name, get_action_space)

====
